---- MODULE Spec2Model ----
(***************************************************************************)
(* Model of watermark.py: the glyph-block renderer                          *)
(* (create_single_text_watermark) and the diagonal tiler                   *)
(* (create_photo_text_watermark).                                          *)
(*                                                                         *)
(* Rasters are modelled by their size <<width, height>>; None is <<>>.     *)
(* density is held in tenths (density = 7 stands for 0.7).  The text and   *)
(* the font are represented by the bounding box that textbbox measures,    *)
(* <<0, 0>> being the empty string.  Floating point expressions of the     *)
(* source are computed in integer arithmetic that reproduces the double    *)
(* precision results: BaseSpacing includes the rounding of the product,    *)
(* the square roots are compared exactly, and the trigonometric table      *)
(* (seven decimal places) gives the truncated lattice steps of the source  *)
(* for every base_spacing up to 214.                                       *)
(***************************************************************************)
EXTENDS Integers, Sequences, FiniteSets, TLC

VARIABLES
    \* create_photo_text_watermark: arguments
    base_width, base_height, text, outline_width, angle, density,
    \* create_photo_text_watermark: locals
    pc, single_text, base_spacing, pattern, rotated_text,
    dx, dy, perp_dx, perp_dy, diagonal_count, i, text_count, j, placed,
    crop_box, result, error,
    \* create_single_text_watermark: arguments and locals
    g_pc, font_color, outline_color, text_img,
    font_color_rgb, outline_color_rgb, offset_x, offset_y, draws

args == <<base_width, base_height, text, outline_width, angle, density>>
tiler == <<pc, single_text, base_spacing, pattern, rotated_text,
           dx, dy, perp_dx, perp_dy, diagonal_count, i, text_count, j, placed,
           crop_box, result, error>>
glyph == <<g_pc, font_color, outline_color, text_img,
           font_color_rgb, outline_color_rgb, offset_x, offset_y, draws>>
vars == <<args, tiler, glyph>>

---------------------------------------------------------------------------
\* Bounds of the model

MaxBase == 4
MaxTextW == 3
MaxTextH == 2
MaxOutline == 1

\* The bounding boxes textbbox can measure: (0, 0) for the empty string.
TextBoxes == {<<0, 0>>} \cup ((1..MaxTextW) \X (1..MaxTextH))

\* Angles in degrees.
Angles == {0, 45, 60, 90}

\* Densities in tenths; 0 and 11 lie outside (0, 1].
Densities == 0..11

\* Colour strings handed to ImageColor.getcolor.
Colors == {"#ffffff", "#000000", "red", "bogus"}

None == <<>>

---------------------------------------------------------------------------
\* Arithmetic helpers

Max2(a, b) == IF a >= b THEN a ELSE b

Min2(a, b) == IF a <= b THEN a ELSE b

SetMax(S) == CHOOSE m \in S : \A n \in S : n <= m

SetMin(S) == CHOOSE m \in S : \A n \in S : m <= n

\* int(n / d) of Python for d > 0: truncation toward zero.
Trunc(n, d) == IF n >= 0 THEN n \div d ELSE -((-n) \div d)

\* math.ceil(n / d) for d > 0.
CeilDiv(n, d) == -((-n) \div d)

\* int(sqrt(num / den)) for num >= 0, den > 0: the largest n with n*n*den <= num.
FloorSqrtRatio(num, den) ==
    CHOOSE n \in 0..num : n * n * den <= num /\ (n + 1) * (n + 1) * den > num

E7 == 10000000

\* math.cos(math.radians(a)) * 10^7 for the angles the model evaluates,
\* a + 90 standing for angle_rad + math.pi / 2.
CosE7(a) ==
    CASE a = 0 -> E7
      [] a = 45 -> 7071068
      [] a = 60 -> 5000000
      [] a = 90 -> 0
      [] a = 135 -> -7071068
      [] a = 150 -> -8660254
      [] a = 180 -> -E7

\* math.sin(math.radians(a)) * 10^7.
SinE7(a) ==
    CASE a = 0 -> 0
      [] a = 45 -> 7071068
      [] a = 60 -> 8660254
      [] a = 90 -> E7
      [] a = 135 -> 7071068
      [] a = 150 -> 5000000
      [] a = 180 -> 0

---------------------------------------------------------------------------
\* create_single_text_watermark: pure parts

ValueError == <<"ValueError">>

White == <<255, 255, 255, 255>>

Black == <<0, 0, 0, 255>>

\* ImageColor.getcolor(color, "RGBA")
GetColor(color) ==
    CASE color = "#ffffff" -> <<255, 255, 255, 255>>
      [] color = "#000000" -> <<0, 0, 0, 255>>
      [] color = "red" -> <<255, 0, 0, 255>>
      [] OTHER -> ValueError

TextWidth(t) == t[1]

TextHeight(t) == t[2]

Padding(w) == w * 2

TextImgSizeNarrow(t, w) == <<TextWidth(t) + Padding(w), TextHeight(t) + Padding(w)>>

\* size of text_img, line 218
TextImgSize(t, w) == <<TextWidth(t) + Padding(w) * 2, TextHeight(t) + Padding(w) * 2>>

FontColorRGBSwapped(color) == IF GetColor(color) = ValueError THEN Black ELSE GetColor(color)

\* lines 222-226
FontColorRGB(color) == IF GetColor(color) = ValueError THEN White ELSE GetColor(color)

\* lines 228-232
OutlineColorRGB(color) == IF GetColor(color) = ValueError THEN Black ELSE GetColor(color)

\* range(-outline_width, outline_width + 1)
OffsetRange(w) == (-w)..w

---------------------------------------------------------------------------
\* create_photo_text_watermark: pure parts

\* max(0.2, min(1.0, 1.0 - density)), in tenths
SpacingFactor(d) == Max2(2, Min2(10, 10 - d))

SpacingFactorDirect(d) == Max2(2, Min2(10, d))

BaseSpacingDirect(tw, th, d) == (Max2(tw, th) * 25 * SpacingFactorDirect(d)) \div 100

\* The double spacing_factor against the exact factor of SpacingFactor: by how
\* many tenths of 2^-53 it lies below.  1.0 - 0.3 is the double
\* 0.7 - 0.4 * 2^-53 and 1.0 - 0.4 the double 0.6 - 0.2 * 2^-53; for every
\* other density in tenths the double is the exact factor or lies above it.
FactorDeficit(d) ==
    CASE d = 3 -> 4
      [] d = 4 -> 2
      [] OTHER -> 0

\* the largest power of two strictly below n, for n >= 2
Pow2Below(n) == CHOOSE p \in {2^k : k \in 0..30} : p < n /\ n <= 2 * p

\* int(max(text_width, text_height) * 2.5 * spacing_factor), line 279, in double
\* arithmetic.  max * 2.5 is exact; the product with the factor is rounded to
\* the nearest double.  When the exact product q is not an integer the
\* truncation is floor(q).  When it is an integer and the double factor lies
\* below the exact one, the product falls short of q by
\* max * FactorDeficit / 4 * 2^-53 and is rounded to the double below q, and
\* truncated to q - 1, once that exceeds half the gap between q and that double.
BaseSpacing(tw, th, d) ==
    LET m == Max2(tw, th)
        q100 == m * 25 * SpacingFactor(d)
    IN IF /\ q100 > 0
          /\ q100 % 100 = 0
          /\ m * FactorDeficit(d) > Pow2Below(4 * (q100 \div 100))
       THEN (q100 \div 100) - 1
       ELSE q100 \div 100

PatternSize(bw, bh, tw, th) == <<bw + 2 * tw, bh + 2 * th>>

\* Image.rotate(angle, expand=True): size of the rotated raster.
RotatedSize(w, h, a) ==
    IF a \in {0, 180} THEN <<w, h>>
    ELSE IF a \in {90, 270} THEN <<h, w>>
    ELSE LET corners == {<<0, 0>>, <<w, 0>>, <<w, h>>, <<0, h>>}
             xx == {CosE7(a) * (2 * c[1] - w) - SinE7(a) * (2 * c[2] - h) + w * E7 : c \in corners}
             yy == {SinE7(a) * (2 * c[1] - w) + CosE7(a) * (2 * c[2] - h) + h * E7 : c \in corners}
         IN <<CeilDiv(SetMax(xx), 2 * E7) - (SetMin(xx) \div (2 * E7)),
              CeilDiv(SetMax(yy), 2 * E7) - (SetMin(yy) \div (2 * E7))>>

\* int(math.cos(angle_rad) * base_spacing) and the three like it
GridDx(a, s) == Trunc(CosE7(a) * s, E7)

GridDy(a, s) == Trunc(SinE7(a) * s, E7)

GridPerpDx(a, s) == Trunc(CosE7(a + 90) * s, E7)

GridPerpDy(a, s) == Trunc(SinE7(a + 90) * s, E7)

\* int(diagonal_length / base_spacing) * 2, for base_spacing > 0
DiagonalCount(bw, bh, s) == FloorSqrtRatio(bw * bw + bh * bh, s * s) * 2

\* int(diagonal_length * 1.5 / base_spacing) + 1, for base_spacing > 0
TextCount(bw, bh, s) == FloorSqrtRatio(9 * (bw * bw + bh * bh), 4 * s * s) + 1

NearPatternInside(x, y, rw, rh, pw, ph) == 0 <= x /\ x <= pw /\ 0 <= y /\ y <= ph

\* the guard of lines 322-323
NearPattern(x, y, rw, rh, pw, ph) == -rw <= x /\ x <= pw /\ -rh <= y /\ y <= ph

\* Lines 273-324 run in one piece for density d: the index pairs <<i, j>> whose
\* lattice point passes the guard and is pasted; none when line 302 raises.
TilesStamped(bw, bh, tw, th, a, d) ==
    LET s == BaseSpacing(tw, th, d)
        rot == RotatedSize(tw, th, a)
        pat == PatternSize(bw, bh, tw, th)
    IN IF s = 0 THEN {}
       ELSE LET dc == DiagonalCount(bw, bh, s)
                tc == TextCount(bw, bh, s)
            IN {p \in ((-dc)..(dc - 1)) \X (0..(tc - 1)) :
                   NearPattern(-rot[1] + p[1] * GridPerpDx(a, s) + p[2] * GridDx(a, s),
                               -rot[2] + p[1] * GridPerpDy(a, s) + p[2] * GridDy(a, s),
                               rot[1], rot[2], pat[1], pat[2])}

CropBoxSum(pw, ph, bw, bh) ==
    LET left == (pw + bw) \div 2
        top == (ph + bh) \div 2
    IN <<left, top, left + bw, top + bh>>

\* lines 327-330
CropBox(pw, ph, bw, bh) ==
    LET left == (pw - bw) \div 2
        top == (ph - bh) \div 2
    IN <<left, top, left + bw, top + bh>>

\* Image.crop(box): size of the cropped raster
CropSize(box) == <<box[3] - box[1], box[4] - box[2]>>

---------------------------------------------------------------------------
\* create_photo_text_watermark: the procedure, one action per statement group

text_width == single_text[1]

text_height == single_text[2]

pattern_width == pattern[1]

pattern_height == pattern[2]

rotated_width == rotated_text[1]

rotated_height == rotated_text[2]

start_x == -rotated_width

start_y == -rotated_height

line_start_x == start_x + (i * perp_dx)

line_start_y == start_y + (i * perp_dy)

x == line_start_x + (j * dx)

y == line_start_y + (j * dy)

GlyphIdle ==
    /\ g_pc = "idle"
    /\ font_color = "#ffffff"
    /\ outline_color = "#000000"
    /\ text_img = None
    /\ font_color_rgb = None
    /\ outline_color_rgb = None
    /\ offset_x = 0
    /\ offset_y = 0
    /\ draws = <<>>

\* The call create_photo_text_watermark(base_size, text, ..., angle, density)
Init ==
    /\ base_width \in 0..MaxBase
    /\ base_height \in 0..MaxBase
    /\ text \in TextBoxes
    /\ outline_width \in 0..MaxOutline
    /\ angle \in Angles
    /\ density \in Densities
    /\ pc = "start"
    /\ single_text = None
    /\ base_spacing = 0
    /\ pattern = None
    /\ rotated_text = None
    /\ dx = 0
    /\ dy = 0
    /\ perp_dx = 0
    /\ perp_dy = 0
    /\ diagonal_count = 0
    /\ i = 0
    /\ text_count = 0
    /\ j = 0
    /\ placed = {}
    /\ crop_box = None
    /\ result = None
    /\ error = "none"
    /\ GlyphIdle

\* lines 253-269: the font is loaded and the glyph tile rendered
CreateSingleText ==
    /\ pc = "start"
    /\ single_text' = TextImgSize(text, outline_width)
    /\ pc' = "spacing"
    /\ UNCHANGED <<args, glyph, text_count, base_spacing, pattern, rotated_text, dx, dy, perp_dx,
                   perp_dy, diagonal_count, i, j, placed, crop_box, result, error>>

\* lines 273-279
CalcSpacing ==
    /\ pc = "spacing"
    /\ base_spacing' = BaseSpacing(text_width, text_height, density)
    /\ pc' = "pattern"
    /\ UNCHANGED <<args, glyph, text_count, single_text, pattern, rotated_text, dx, dy, perp_dx,
                   perp_dy, diagonal_count, i, j, placed, crop_box, result, error>>

\* lines 283-285
NewPattern ==
    /\ pc = "pattern"
    /\ pattern' = PatternSize(base_width, base_height, text_width, text_height)
    /\ pc' = "rotate"
    /\ UNCHANGED <<args, glyph, text_count, single_text, base_spacing, rotated_text, dx, dy, perp_dx,
                   perp_dy, diagonal_count, i, j, placed, crop_box, result, error>>

\* lines 288-289
RotateText ==
    /\ pc = "rotate"
    /\ rotated_text' = RotatedSize(text_width, text_height, angle)
    /\ pc' = "grid"
    /\ UNCHANGED <<args, glyph, text_count, single_text, base_spacing, pattern, dx, dy, perp_dx,
                   perp_dy, diagonal_count, i, j, placed, crop_box, result, error>>

\* lines 293-299
CalcGrid ==
    /\ pc = "grid"
    /\ dx' = GridDx(angle, base_spacing)
    /\ dy' = GridDy(angle, base_spacing)
    /\ perp_dx' = GridPerpDx(angle, base_spacing)
    /\ perp_dy' = GridPerpDy(angle, base_spacing)
    /\ pc' = "count"
    /\ UNCHANGED <<args, glyph, text_count, single_text, base_spacing, pattern, rotated_text,
                   diagonal_count, i, j, placed, crop_box, result, error>>

\* line 302 with base_spacing = 0: the division raises
RaiseZeroDivision ==
    /\ pc = "count"
    /\ base_spacing = 0
    /\ error' = "ZeroDivisionError"
    /\ pc' = "raised"
    /\ UNCHANGED <<args, glyph, text_count, single_text, base_spacing, pattern, rotated_text, dx, dy,
                   perp_dx, perp_dy, diagonal_count, i, j, placed, crop_box, result>>

\* lines 302-309: the line count, and the row loop starts at -diagonal_count
CalcDiagonalCount ==
    /\ pc = "count"
    /\ base_spacing # 0
    /\ diagonal_count' = DiagonalCount(base_width, base_height, base_spacing)
    /\ i' = -diagonal_count'
    /\ pc' = "for_i"
    /\ UNCHANGED <<args, glyph, text_count, single_text, base_spacing, pattern, rotated_text, dx, dy,
                   perp_dx, perp_dy, j, placed, crop_box, result, error>>

\* lines 309-317: a row begins
NextLine ==
    /\ pc = "for_i"
    /\ i < diagonal_count
    /\ text_count' = TextCount(base_width, base_height, base_spacing)
    /\ j' = 0
    /\ pc' = "for_j"
    /\ UNCHANGED <<args, glyph, single_text, base_spacing, pattern, rotated_text, dx, dy,
                   perp_dx, perp_dy, diagonal_count, i, placed, crop_box, result, error>>

\* lines 318-324: the guard holds and the rotated tile is pasted at (x, y)
PlaceText ==
    /\ pc = "for_j"
    /\ j < text_count
    /\ NearPattern(x, y, rotated_width, rotated_height, pattern_width, pattern_height)
    /\ placed' = placed \cup {<<i, j>>}
    /\ j' = j + 1
    /\ UNCHANGED <<args, glyph, text_count, pc, single_text, base_spacing, pattern, rotated_text, dx, dy,
                   perp_dx, perp_dy, diagonal_count, i, crop_box, result, error>>

\* lines 318-323: the guard fails and the lattice point is skipped
SkipText ==
    /\ pc = "for_j"
    /\ j < text_count
    /\ ~NearPattern(x, y, rotated_width, rotated_height, pattern_width, pattern_height)
    /\ j' = j + 1
    /\ UNCHANGED <<args, glyph, text_count, pc, single_text, base_spacing, pattern, rotated_text, dx, dy,
                   perp_dx, perp_dy, diagonal_count, i, placed, crop_box, result, error>>

\* line 317 exhausted: on to the next row
LineDone ==
    /\ pc = "for_j"
    /\ j >= text_count
    /\ i' = i + 1
    /\ pc' = "for_i"
    /\ UNCHANGED <<args, glyph, text_count, single_text, base_spacing, pattern, rotated_text, dx, dy,
                   perp_dx, perp_dy, diagonal_count, j, placed, crop_box, result, error>>

\* lines 326-332: the row loop is exhausted, the pattern is cropped and returned
CropPattern ==
    /\ pc = "for_i"
    /\ i >= diagonal_count
    /\ crop_box' = CropBox(pattern_width, pattern_height, base_width, base_height)
    /\ result' = CropSize(crop_box')
    /\ pc' = "done"
    /\ UNCHANGED <<args, glyph, text_count, single_text, base_spacing, pattern, rotated_text, dx, dy,
                   perp_dx, perp_dy, diagonal_count, i, j, placed, error>>

Next ==
    \/ CreateSingleText
    \/ CalcSpacing
    \/ NewPattern
    \/ RotateText
    \/ CalcGrid
    \/ RaiseZeroDivision
    \/ CalcDiagonalCount
    \/ NextLine
    \/ PlaceText
    \/ SkipText
    \/ LineDone
    \/ CropPattern

Spec == Init /\ [][Next]_vars

---------------------------------------------------------------------------
\* create_single_text_watermark: the procedure

padding == Padding(outline_width)

TilerIdle ==
    /\ base_width = 0
    /\ base_height = 0
    /\ angle = 0
    /\ density = 0
    /\ pc = "idle"
    /\ single_text = None
    /\ base_spacing = 0
    /\ pattern = None
    /\ rotated_text = None
    /\ dx = 0
    /\ dy = 0
    /\ perp_dx = 0
    /\ perp_dy = 0
    /\ diagonal_count = 0
    /\ i = 0
    /\ text_count = 0
    /\ j = 0
    /\ placed = {}
    /\ crop_box = None
    /\ result = None
    /\ error = "none"

\* The call create_single_text_watermark(text, font, font_size, font_color,
\* outline_color, outline_width)
GlyphInit ==
    /\ text \in TextBoxes
    /\ outline_width \in 0..MaxOutline
    /\ font_color \in Colors
    /\ outline_color \in Colors
    /\ g_pc = "start"
    /\ text_img = None
    /\ font_color_rgb = None
    /\ outline_color_rgb = None
    /\ offset_x = 0
    /\ offset_y = 0
    /\ draws = <<>>
    /\ TilerIdle

\* lines 208-219: the text is measured and the padded raster allocated
NewTextImg ==
    /\ g_pc = "start"
    /\ text_img' = TextImgSize(text, outline_width)
    /\ g_pc' = "font_color"
    /\ UNCHANGED <<args, tiler, font_color, outline_color, font_color_rgb,
                   outline_color_rgb, offset_x, offset_y, draws>>

\* lines 222-226
ParseFontColor ==
    /\ g_pc = "font_color"
    /\ font_color_rgb' = FontColorRGB(font_color)
    /\ g_pc' = IF font_color_rgb' = ValueError THEN "raised" ELSE "outline_color"
    /\ UNCHANGED <<args, tiler, font_color, outline_color, text_img,
                   outline_color_rgb, offset_x, offset_y, draws>>

\* lines 228-232
ParseOutlineColor ==
    /\ g_pc = "outline_color"
    /\ outline_color_rgb' = OutlineColorRGB(outline_color)
    /\ g_pc' = IF outline_color_rgb' = ValueError THEN "raised" ELSE "outline"
    /\ UNCHANGED <<args, tiler, font_color, outline_color, text_img,
                   font_color_rgb, offset_x, offset_y, draws>>

\* lines 235-237: the outline pass begins at the first offset pair
BeginOutline ==
    /\ g_pc = "outline"
    /\ outline_width > 0
    /\ offset_x' = SetMin(OffsetRange(outline_width))
    /\ offset_y' = SetMin(OffsetRange(outline_width))
    /\ g_pc' = "for_offset"
    /\ UNCHANGED <<args, tiler, font_color, outline_color, text_img,
                   font_color_rgb, outline_color_rgb, draws>>

\* line 235 with outline_width = 0: no outline pass
NoOutline ==
    /\ g_pc = "outline"
    /\ ~(outline_width > 0)
    /\ g_pc' = "main"
    /\ UNCHANGED <<args, tiler, font_color, outline_color, text_img,
                   font_color_rgb, outline_color_rgb, offset_x, offset_y, draws>>

\* lines 236-237: the two nested range loops move to the next offset pair
NextOffset ==
    IF offset_y < SetMax(OffsetRange(outline_width))
    THEN /\ offset_y' = offset_y + 1
         /\ UNCHANGED <<offset_x, g_pc>>
    ELSE IF offset_x < SetMax(OffsetRange(outline_width))
    THEN /\ offset_x' = offset_x + 1
         /\ offset_y' = SetMin(OffsetRange(outline_width))
         /\ UNCHANGED g_pc
    ELSE /\ g_pc' = "main"
         /\ UNCHANGED <<offset_x, offset_y>>

\* line 240: the text drawn in the outline colour at one offset
DrawOutline ==
    /\ g_pc = "for_offset"
    /\ ~(offset_x = 0 /\ offset_y = 0)
    /\ draws' = Append(draws, [pos |-> <<padding + offset_x, padding + offset_y>>,
                               fill |-> outline_color_rgb, kind |-> "outline"])
    /\ NextOffset
    /\ UNCHANGED <<args, tiler, font_color, outline_color, text_img,
                   font_color_rgb, outline_color_rgb>>

\* lines 238-239: the zero offset is skipped
SkipCentre ==
    /\ g_pc = "for_offset"
    /\ offset_x = 0 /\ offset_y = 0
    /\ NextOffset
    /\ UNCHANGED <<args, tiler, font_color, outline_color, text_img,
                   font_color_rgb, outline_color_rgb, draws>>

\* lines 243-245: the main text is drawn and text_img returned
DrawMainText ==
    /\ g_pc = "main"
    /\ draws' = Append(draws, [pos |-> <<padding, padding>>,
                               fill |-> font_color_rgb, kind |-> "main"])
    /\ g_pc' = "returned"
    /\ UNCHANGED <<args, tiler, font_color, outline_color, text_img,
                   font_color_rgb, outline_color_rgb, offset_x, offset_y>>

GlyphNext ==
    \/ NewTextImg
    \/ ParseFontColor
    \/ ParseOutlineColor
    \/ BeginOutline
    \/ NoOutline
    \/ DrawOutline
    \/ SkipCentre
    \/ DrawMainText

GlyphSpec == GlyphInit /\ [][GlyphNext]_vars

---------------------------------------------------------------------------
\* Consistency of the one-piece form with the stepwise procedure

TilesStampedAgree ==
    pc = "done" =>
        placed = TilesStamped(base_width, base_height, text_width, text_height, angle, density)

---------------------------------------------------------------------------
\* Properties of the diagonal tiler (specification Spec)

\* the ranges section 6 of the specification recognises
ValidRequest == base_width >= 1 /\ base_height >= 1 /\ density \in 1..10

\* a non-empty text: the glyph tile then measures at least 1 x 1
ValidTile == text # <<0, 0>>

SpacingComputed == pc \notin {"idle", "start", "spacing"}

InLoopOrDone == pc \in {"for_i", "for_j", "done"}

\* positions at which the rotated tile has been pasted
StampedPoints ==
    {<<-rotated_width + p[1] * perp_dx + p[2] * dx,
       -rotated_height + p[1] * perp_dy + p[2] * dy>> : p \in placed}

\* the footprint [p.x, p.x + rw) x [p.y, p.y + rh) meets [x0, x1) x [y0, y1)
FootprintMeets(p, x0, y0, x1, y1) ==
    /\ p[1] < x1 /\ p[1] + rotated_width > x0
    /\ p[2] < y1 /\ p[2] + rotated_height > y0

\* C1: for W >= 1, H >= 1 and density in (0, 1], once the coverage loop has
\* finished some stamped footprint meets the crop window
\* [tile_w, tile_w + W) x [tile_h, tile_h + H), and no axis-aligned window of
\* side spacing + max(rw, rh) inside the crop window is free of footprints.
C1_FullCoverage ==
    (pc = "done" /\ ValidRequest /\ ValidTile) =>
        LET side == base_spacing + Max2(rotated_width, rotated_height)
            cx0 == text_width
            cy0 == text_height
            cx1 == text_width + base_width
            cy1 == text_height + base_height
        IN /\ \E p \in StampedPoints : FootprintMeets(p, cx0, cy0, cx1, cy1)
           /\ \A wx \in cx0..(cx1 - side) : \A wy \in cy0..(cy1 - side) :
                  \E p \in StampedPoints : FootprintMeets(p, wx, wy, wx + side, wy + side)

\* C2: the returned raster is exactly W x H, and the crop rectangle
\* (left, top, left + W, top + H), left = (working_width - W) / 2,
\* top = (working_height - H) / 2, lies inside the working canvas of size
\* (W + 2 * tile_w, H + 2 * tile_h).
C2_CropExact ==
    pc = "done" =>
        /\ result = <<base_width, base_height>>
        /\ pattern = <<base_width + 2 * text_width, base_height + 2 * text_height>>
        /\ 2 * crop_box[1] = pattern_width - base_width
        /\ 2 * crop_box[2] = pattern_height - base_height
        /\ crop_box[3] = crop_box[1] + base_width
        /\ crop_box[4] = crop_box[2] + base_height
        /\ 0 <= crop_box[1] /\ crop_box[3] <= base_width + 2 * text_width
        /\ 0 <= crop_box[2] /\ crop_box[4] <= base_height + 2 * text_height

C2_Witness ==
    /\ pc = "done"
    /\ base_width >= 1 /\ base_height >= 1
    /\ text_width >= 1 /\ text_height >= 1
    /\ placed # {}
    /\ result = <<base_width, base_height>>

\* C3 as stated: for densities d1 < d2 in 0.2 .. 0.9 the spacing for d2 is
\* strictly smaller than the spacing for d1, and at least as many tiles are
\* stamped for d2 as for d1.  The run in the state is the one for d2.
C3_StrictlyDenser ==
    (pc = "done" /\ ValidRequest /\ ValidTile /\ density \in 2..9) =>
        \A d1 \in 2..9 :
            d1 < density =>
                /\ base_spacing < BaseSpacing(text_width, text_height, d1)
                /\ Cardinality(placed) >=
                       Cardinality(TilesStamped(base_width, base_height, text_width,
                                                text_height, angle, d1))

\* C3 amended: for densities d1 < d2 in 0.2 .. 0.9 the spacing for d2 is less
\* than or equal to the spacing for d1.
C3_SpacingNonIncreasing ==
    (SpacingComputed /\ density \in 2..9) =>
        \A d1 \in 2..9 :
            d1 < density => base_spacing <= BaseSpacing(text_width, text_height, d1)

C3_Witness ==
    /\ pc = "done"
    /\ density = 9
    /\ base_spacing >= 1
    /\ base_spacing = BaseSpacing(text_width, text_height, 8)
    /\ base_spacing < BaseSpacing(text_width, text_height, 2)
    /\ placed # {}

\* The second half of C3 on its own, for a smaller spacing: a request with a
\* strictly smaller spacing stamps at least as many tiles.
CountNonDecreasing ==
    (pc = "done" /\ ValidRequest /\ ValidTile /\ density \in 2..9) =>
        \A d1 \in 2..9 :
            (d1 < density /\ BaseSpacing(text_width, text_height, d1) > base_spacing) =>
                Cardinality(placed) >=
                    Cardinality(TilesStamped(base_width, base_height, text_width,
                                             text_height, angle, d1))

\* C4: for tile width and height >= 1 and density in (0, 1] the spacing is an
\* integer >= 1, so the divisions by it are defined.
C4_SpacingPositive ==
    (SpacingComputed /\ ValidRequest /\ text_width >= 1 /\ text_height >= 1) =>
        /\ base_spacing >= 1
        /\ error # "ZeroDivisionError"

\* C5: with empty text or a zero-area glyph tile the call fails with
\* EmptyWatermarkError before any rotation, lattice computation or stamping,
\* and returns no raster.
C5_EmptyFailsFast ==
    (ValidRequest /\ (text = <<0, 0>> \/ (single_text # None /\ text_width * text_height = 0))) =>
        /\ rotated_text = None
        /\ pc \notin {"count", "for_i", "for_j", "done"}
        /\ placed = {}
        /\ result = None
        /\ error \in {"none", "EmptyWatermarkError"}
        /\ (pc = "raised" => error = "EmptyWatermarkError")

\* C6: with density outside (0, 1] or a non-positive canvas dimension the
\* request is rejected before any rendering work: no glyph tile, no working
\* canvas, no stamp, no raster.
C6_RejectedBeforeRendering ==
    (pc # "idle" /\ ~ValidRequest) =>
        /\ single_text = None
        /\ pattern = None
        /\ placed = {}
        /\ result = None

\* C7: the number of tiles stamped at density 1.0 is strictly greater than the
\* number stamped at density 0.1, for the same angle, canvas and tile.
C7_DensestStampsMore ==
    (pc = "done" /\ ValidRequest /\ ValidTile /\ density = 10) =>
        Cardinality(placed) >
            Cardinality(TilesStamped(base_width, base_height, text_width,
                                     text_height, angle, 1))

\* C9: every enumerated lattice point
\* (-rw + i * perp_dx + j * dx, -rh + i * perp_dy + j * dy) is stamped if and
\* only if -rw <= x <= working_width and -rh <= y <= working_height, and none
\* whose footprint meets the working canvas is skipped; when the loop is over
\* the enumerated points are those of rows -line_count .. line_count - 1 and
\* columns 0 .. tiles_per_line - 1.
C9_GuardExact ==
    InLoopOrDone =>
        LET rows == (-diagonal_count)..(diagonal_count - 1)
            cols == 0..(text_count - 1)
            visited == {p \in rows \X cols :
                           p[1] < i \/ (pc = "for_j" /\ p[1] = i /\ p[2] < j)}
        IN /\ placed \subseteq visited
           /\ (pc = "done" => visited = rows \X cols)
           /\ \A p \in {q \in visited : pc = "for_j" => q[1] = i} :
                  LET px == -rotated_width + p[1] * perp_dx + p[2] * dx
                      py == -rotated_height + p[1] * perp_dy + p[2] * dy
                  IN /\ p \in placed <=>
                            (/\ -rotated_width <= px /\ px <= pattern_width
                             /\ -rotated_height <= py /\ py <= pattern_height)
                     /\ FootprintMeets(<<px, py>>, 0, 0, pattern_width, pattern_height)
                            => p \in placed

C9_Witness ==
    /\ pc = "done"
    /\ \E p \in StampedPoints :
           p[1] < 0 /\ FootprintMeets(p, 0, 0, pattern_width, pattern_height)
    /\ placed # ((-diagonal_count)..(diagonal_count - 1)) \X (0..(text_count - 1))

---------------------------------------------------------------------------
\* Properties of the glyph-block renderer (specification GlyphSpec)

\* C8: a malformed fill or outline colour never aborts the renderer: the fill
\* colour becomes opaque white and the outline colour opaque black, each
\* independently of the other, and the tile returned has the size it has for
\* valid colours.
C8_ColorFallback ==
    /\ g_pc # "raised"
    /\ g_pc \notin {"idle", "start", "font_color"} =>
           font_color_rgb = (IF GetColor(font_color) = ValueError
                             THEN <<255, 255, 255, 255>> ELSE GetColor(font_color))
    /\ g_pc \notin {"idle", "start", "font_color", "outline_color"} =>
           outline_color_rgb = (IF GetColor(outline_color) = ValueError
                                THEN <<0, 0, 0, 255>> ELSE GetColor(outline_color))
    /\ g_pc = "returned" =>
           /\ text_img = <<TextWidth(text) + 4 * outline_width,
                           TextHeight(text) + 4 * outline_width>>
           /\ \A k \in 1..Len(draws) :
                  draws[k].fill = IF draws[k].kind = "main" THEN font_color_rgb
                                  ELSE outline_color_rgb

C8_Witness ==
    /\ g_pc = "returned"
    /\ GetColor(font_color) = ValueError
    /\ GetColor(outline_color) # ValueError
    /\ outline_color_rgb # <<0, 0, 0, 255>>
    /\ outline_width > 0
    /\ draws[Len(draws)].fill = <<255, 255, 255, 255>>

\* C10: the tile has size (text_width + 4w, text_height + 4w); for w > 0 the
\* text is drawn in the outline colour exactly once at each of the
\* (2w + 1)^2 - 1 non-zero offsets of [-w, w]^2, every draw rectangle lies
\* inside the tile, and the fill-colour draw at (2w, 2w) comes after all
\* outline draws; for w = 0 there is no outline draw.
C10_OutlinePass ==
    LET w == outline_width
        tw == TextWidth(text)
        th == TextHeight(text)
        outl == {k \in 1..Len(draws) : draws[k].kind = "outline"}
    IN /\ g_pc \notin {"idle", "start"} => text_img = <<tw + 4 * w, th + 4 * w>>
       /\ \A k \in 1..Len(draws) :
              /\ 0 <= draws[k].pos[1] /\ draws[k].pos[1] + tw <= text_img[1]
              /\ 0 <= draws[k].pos[2] /\ draws[k].pos[2] + th <= text_img[2]
       /\ g_pc = "returned" =>
              /\ Cardinality(outl) = IF w > 0 THEN (2 * w + 1) * (2 * w + 1) - 1 ELSE 0
              /\ \A ox \in (-w)..w : \A oy \in (-w)..w :
                     ~(ox = 0 /\ oy = 0) =>
                         Cardinality({k \in outl :
                                         /\ draws[k].pos = <<2 * w + ox, 2 * w + oy>>
                                         /\ draws[k].fill = outline_color_rgb}) = 1
              /\ Len(draws) >= 1
              /\ draws[Len(draws)].kind = "main"
              /\ draws[Len(draws)].pos = <<2 * w, 2 * w>>
              /\ draws[Len(draws)].fill = font_color_rgb
              /\ \A k \in 1..(Len(draws) - 1) : draws[k].kind = "outline"

C10_Witness ==
    /\ g_pc = "returned"
    /\ outline_width >= 1
    /\ TextWidth(text) >= 1
    /\ Len(draws) = (2 * outline_width + 1) * (2 * outline_width + 1)

====
